---- MODULE Spec2Model ----
(***************************************************************************)
(* Model of the doko key-derivation scripts:                               *)
(*   derive_keys.py            derive_master_key, derive_xprv              *)
(*   create_descriptors.py     derive_keys_with_descriptors                *)
(*   misc/recovery/import_keys.py  derive_individual_keys,                 *)
(*                                 generate_bitcoin_cli_commands           *)
(*   misc/recovery/fix_keys.py     derive_testnet_keys                     *)
(*   create_valid_descriptors.py   get_descriptor_with_checksum,           *)
(*                                 create_import_descriptors               *)
(*                                                                         *)
(* Each script is a sequential program; one specification per script       *)
(* (SpecPath, SpecMaster, SpecBatch, SpecCli, SpecImport) steps through    *)
(* its statements.  The variables of the scripts that do not run in a      *)
(* specification stay at their idle values.                                *)
(*                                                                         *)
(* Python ints are unbounded while TLC's are 32 bit, so an int that can    *)
(* reach 2^31 is held as a pair <<hi, lo>> meaning hi * 2^16 + lo with     *)
(* 0 <= lo < 2^16.  Byte strings are sequences of 0..255, text strings     *)
(* are sequences of one-character strings.                                 *)
(***************************************************************************)
EXTENDS Integers, Sequences, FiniteSets, TLC

VARIABLES
    pc,               \* position of the running script
    raised,           \* the exception that ended the script, "" if none
    derived_key,      \* the BIP32Key object (or None) held by a derivation loop
    \* ---- derive_keys.py: derive_xprv
    derivation_path,  \* the path argument (text), after line 37 without "m/"
    path_arg,         \* the path argument as the caller gave it
    todo,             \* elements of derivation_path.split('/') not yet visited
    visited,          \* elements already visited, in order
    applied,          \* the index handed to ChildKey for each visited element
    returned,         \* the value the function returned
    \* ---- derive_keys.py: derive_master_key
    seed,             \* the seed argument
    hmac_sha512,      \* the 64-byte digest of line 19
    master,           \* the returned pair
    \* ---- the three batch derivers
    script,           \* which deriver runs
    mnemonic_phrase,  \* its mnemonic argument
    num_keys,         \* its num_keys argument
    i,                \* the loop variable of `for i in range(num_keys)`
    rest,             \* indices of the inner loop not yet applied
    keys,             \* the list the deriver builds (keys / descriptors)
    finals,           \* the BIP32Key each record was built from
    hmacNone,         \* derivations for which CKDpriv returned None
    hmacSome,         \* derivations for which CKDpriv returned a key
    \* ---- fix_keys.py lines 32-38 on one key
    raw_key,          \* the bytes derived_key.PrivateKey() returned
    private_key_bytes,\* line 32
    wif_key,          \* line 38
    \* ---- import_keys.py: generate_bitcoin_cli_commands
    cli_keys,         \* the keys argument
    commands,         \* the list of commands built so far
    \* ---- create_valid_descriptors.py: create_import_descriptors
    file_keys,        \* the contents of testnet_keys.json
    descriptors,      \* the list built so far
    printed,          \* the WIFs of the error lines get_descriptor_with_checksum printed
    calls             \* what each subprocess.run call gave, in order

pathVars   == <<derivation_path, path_arg, todo, visited, applied, returned>>
masterVars == <<seed, hmac_sha512, master>>
batchVars  == <<script, mnemonic_phrase, num_keys, i, rest, keys, finals>>
oracleVars == <<hmacNone, hmacSome>>
wifVars    == <<raw_key, private_key_bytes, wif_key>>
cliVars    == <<cli_keys, commands>>
importVars == <<file_keys, descriptors, printed, calls>>
vars == <<pc, raised, derived_key, pathVars, masterVars, batchVars, oracleVars, wifVars,
          cliVars, importVars>>

(***************************************************************************)
(* Bounds of the model.                                                    *)
(***************************************************************************)
MaxElems == 2        \* elements in a sampled derivation path
MaxKeys == 10        \* num_keys of a batch
MaxList == 3         \* keys in a list handed to the command and descriptor builders

(***************************************************************************)
(* Sequences.                                                              *)
(***************************************************************************)
Take(s, n) == SubSeq(s, 1, n)
Drop(s, n) == SubSeq(s, n + 1, Len(s))
Last(s) == s[Len(s)]
Front(s) == SubSeq(s, 1, Len(s) - 1)
Range(s) == {s[k] : k \in 1..Len(s)}

RECURSIVE Concat(_)
Concat(ss) == IF ss = <<>> THEN <<>> ELSE Head(ss) \o Concat(Tail(ss))

(***************************************************************************)
(* Python ints that may exceed 31 bits: <<hi, lo>> = hi * 2^16 + lo.       *)
(***************************************************************************)
B16 == 2^16
BigNorm(hi, lo) == <<hi + (lo \div B16), lo % B16>>
BigOfNat(n) == BigNorm(0, n)
BigNeg(a) == IF a[2] = 0 THEN <<-a[1], 0>> ELSE <<-a[1] - 1, B16 - a[2]>>
BigAdd(a, b) == BigNorm(a[1] + b[1], a[2] + b[2])
BigLess(a, b) == a[1] < b[1] \/ (a[1] = b[1] /\ a[2] < b[2])
\* 0x80000000
BIP32_HARDEN == <<2^15, 0>>
\* a & 0x80000000 (bit 31 of a, in two's complement for a negative a)
BigAndHarden(a) == (a[1] \div 2^15) % 2 = 1
\* a | 0x80000000
BigOrHarden(a) == IF BigAndHarden(a) THEN a ELSE <<a[1] + 2^15, a[2]>>

(***************************************************************************)
(* Python text operations used by the scripts.                             *)
(***************************************************************************)
Digits == <<"0", "1", "2", "3", "4", "5", "6", "7", "8", "9">>
IsDigit(c) == \E d \in 1..10 : Digits[d] = c
DigitVal(c) == (CHOOSE d \in 1..10 : Digits[d] = c) - 1

PyStartsWith(s, p) == Len(s) >= Len(p) /\ Take(s, Len(p)) = p
PyEndsWith(s, p) == Len(s) >= Len(p) /\ Drop(s, Len(s) - Len(p)) = p
\* s[:-1]
PyDropLast(s) == IF s = <<>> THEN <<>> ELSE Front(s)

\* s.split(sep) for a one-character sep: the pieces between the separators;
\* always at least one piece, empty pieces are kept
PySplit(s, sep) ==
    LET at == {k \in 1..Len(s) : s[k] = sep}
        \* position of the n-th separator; 0 and Len(s) + 1 bracket them
        Nth(n) == IF n = 0 THEN 0
                  ELSE IF n > Cardinality(at) THEN Len(s) + 1
                  ELSE CHOOSE k \in at : Cardinality({j \in at : j < k}) = n - 1
    IN  [n \in 1..(Cardinality(at) + 1) |-> SubSeq(s, Nth(n - 1) + 1, Nth(n) - 1)]

\* s.strip()
RECURSIVE PyLStrip(_)
PyLStrip(s) == IF s # <<>> /\ Head(s) = " " THEN PyLStrip(Tail(s)) ELSE s
RECURSIVE PyRStrip(_)
PyRStrip(s) == IF s # <<>> /\ Last(s) = " " THEN PyRStrip(Front(s)) ELSE s
PyStrip(s) == PyRStrip(PyLStrip(s))

\* int(s): surrounding whitespace, an optional sign, then decimal digits;
\* anything else is a ValueError (digit grouping with "_" is not sampled)
RECURSIVE ParseDigits(_, _)
ParseDigits(ds, acc) ==
    IF ds = <<>> THEN acc
    ELSE ParseDigits(Tail(ds), BigNorm(acc[1] * 10, acc[2] * 10 + DigitVal(Head(ds))))
PyIntBody(s) == IF s # <<>> /\ Head(s) \in {"+", "-"} THEN Tail(s) ELSE s
PyIntOk(s) ==
    LET b == PyIntBody(PyStrip(s))
    IN  b # <<>> /\ \A k \in 1..Len(b) : IsDigit(b[k])
PyIntVal(s) ==
    LET t == PyStrip(s)
        m == ParseDigits(PyIntBody(t), <<0, 0>>)
    IN  IF t # <<>> /\ Head(t) = "-" THEN BigNeg(m) ELSE m

\* str(n) for a small n >= 0
RECURSIVE PyStr(_)
PyStr(n) == IF n < 10 THEN <<Digits[n + 1]>> ELSE Append(PyStr(n \div 10), Digits[(n % 10) + 1])

(***************************************************************************)
(* mnemonic and bip32utils.  PBKDF2, HMAC-SHA512, HASH160 and the curve    *)
(* multiplication are treated as collision free: a seed is identified by   *)
(* its mnemonic, a key by its seed and the indices derived so far.         *)
(***************************************************************************)
\* Mnemonic("english").to_seed(mnemonic_phrase, passphrase)
mnemonic_to_seed(m) == [mnemonic |-> m, passphrase |-> ""]

NoSecret == [seed |-> [mnemonic |-> 0, passphrase |-> ""], path |-> <<>>]
\* Python's None, held in a variable that otherwise holds a BIP32Key
None == [obj |-> "None", secret |-> NoSecret, depth |-> 0, index |-> <<0, 0>>,
         parent_fpr |-> [hash160 |-> NoSecret], testnet |-> FALSE, network |-> ""]
\* BIP32Key(secret, chain, depth, index, fpr, public=False, testnet=False)
BIP32Key(secret, depth, index, fpr, testnet) ==
    [obj |-> "BIP32Key", secret |-> secret, depth |-> depth, index |-> index,
     parent_fpr |-> fpr, testnet |-> testnet, network |-> ""]
\* BIP32Key.fromEntropy(seed, public=False): testnet keeps its default False
fromEntropy(sd) ==
    BIP32Key([seed |-> sd, path |-> <<>>], 0, <<0, 0>>, [hash160 |-> NoSecret], FALSE)
\* master_key.network = "testnet": sets an attribute bip32utils never reads
SetNetwork(key, n) == [key EXCEPT !.network = n]
\* key.Fingerprint(): first four bytes of HASH160 of the public key
Fingerprint(key) == [hash160 |-> key.secret]
\* struct.pack(">L", i) accepts 0 <= i < 2^32
PackOk(idx) == idx[1] >= 0 /\ idx[1] < 2^16
\* the key material CKDpriv computes for child idx of key
ChildSecret(key, idx) == [seed |-> key.secret.seed, path |-> Append(key.secret.path, idx)]
\* key.ChildKey(idx) (CKDpriv) when struct.pack accepts idx; isNone tells
\* whether IL >= n or the child key is zero, for which CKDpriv returns None
ChildKey(key, idx, isNone) ==
    IF isNone THEN None
    ELSE BIP32Key(ChildSecret(key, idx), key.depth + 1, idx, Fingerprint(key), key.testnet)
\* what HMAC-SHA512 yields for a derivation is fixed once it has been computed
OracleAnswers(secret) ==
    IF secret \in hmacNone THEN {TRUE}
    ELSE IF secret \in hmacSome THEN {FALSE}
    ELSE BOOLEAN
\* key.ExtendedKey(private=True, encoded=True): the serialised fields
ExtendedKey(key) ==
    [version |-> IF key.testnet THEN "tprv" ELSE "xprv", depth |-> key.depth,
     parent_fpr |-> key.parent_fpr, child_index |-> key.index, secret |-> key.secret]
NoXprv == ExtendedKey(None)

(***************************************************************************)
(* Idle values of the variables of the scripts that do not run.            *)
(***************************************************************************)
PathIdle ==
    /\ derivation_path = <<>> /\ path_arg = <<>> /\ todo = <<>> /\ visited = <<>>
    /\ applied = <<>> /\ returned = NoXprv
MasterIdle == seed = <<>> /\ hmac_sha512 = <<>> /\ master = <<>>
BatchIdle ==
    /\ script = "" /\ mnemonic_phrase = 0 /\ num_keys = 0 /\ i = 0 /\ rest = <<>>
    /\ keys = <<>> /\ finals = <<>>
OracleIdle == hmacNone = {} /\ hmacSome = {}
WifIdle == raw_key = <<>> /\ private_key_bytes = <<>> /\ wif_key = <<>>
CliIdle == cli_keys = <<>> /\ commands = <<>>
ImportIdle == file_keys = <<>> /\ descriptors = <<>> /\ printed = <<>> /\ calls = <<>>

(***************************************************************************)
(* derive_keys.py: derive_xprv(mnemonic_phrase, derivation_path)           *)
(***************************************************************************)
\* the fixture mnemonic of the scripts' __main__ blocks
FixtureMnemonic == 1

NumberSamples ==
    { <<"0">>, <<"8", "4">>, <<"-", "1">>, <<>>, <<"x">>,
      <<"2", "1", "4", "7", "4", "8", "3", "6", "4", "7">>,
      <<"2", "1", "4", "7", "4", "8", "3", "6", "4", "8">> }
MarkSamples == { <<>>, <<"'">>, <<"h">> }
ElementSamples == { n \o m : n \in NumberSamples, m \in MarkSamples }
RECURSIVE Join(_)
Join(es) == IF Len(es) = 1 THEN es[1] ELSE es[1] \o <<"/">> \o Join(Tail(es))
PathSamples ==
    { <<"m">> } \cup
    { pre \o Join(es) :
        pre \in { <<>>, <<"m", "/">> },
        es \in UNION { [1..n -> ElementSamples] : n \in 1..MaxElems } }

\* lines 41-45: whether the element is marked hardened, and the index computed
MarkedHardened(index_str) == PyEndsWith(index_str, <<"'">>) \/ PyEndsWith(index_str, <<"h">>)
IndexText(index_str) == IF MarkedHardened(index_str) THEN PyDropLast(index_str) ELSE index_str
IndexOf(index_str) ==
    IF MarkedHardened(index_str)
    THEN BigAdd(PyIntVal(PyDropLast(index_str)), BIP32_HARDEN)
    ELSE PyIntVal(index_str)

InitPath ==
    /\ pc = "xprv_start"
    /\ raised = ""
    /\ path_arg \in PathSamples
    /\ derivation_path = path_arg
    /\ todo = <<>> /\ visited = <<>> /\ applied = <<>>
    /\ derived_key = None /\ returned = NoXprv
    /\ MasterIdle /\ BatchIdle /\ OracleIdle /\ WifIdle /\ CliIdle /\ ImportIdle

\* lines 26-39: seed, master key, network attribute, "m/" prefix, split
XprvStart ==
    /\ pc = "xprv_start"
    /\ LET master_key == SetNetwork(fromEntropy(mnemonic_to_seed(FixtureMnemonic)), "testnet")
           stripped == IF PyStartsWith(derivation_path, <<"m", "/">>)
                       THEN Drop(derivation_path, 2) ELSE derivation_path
       IN  /\ derivation_path' = stripped
           /\ todo' = PySplit(stripped, "/")
           /\ derived_key' = master_key
    /\ pc' = "xprv_loop"
    /\ UNCHANGED <<raised, path_arg, visited, applied, returned>>
    /\ UNCHANGED <<masterVars, batchVars, oracleVars, wifVars, cliVars, importVars>>

\* lines 40-46: one iteration of the loop
XprvStep ==
    /\ pc = "xprv_loop"
    /\ todo # <<>>
    /\ LET index_str == Head(todo)
       IN  /\ todo' = Tail(todo)
           /\ visited' = Append(visited, index_str)
           /\ IF ~PyIntOk(IndexText(index_str))
              THEN /\ raised' = "ValueError" /\ pc' = "raised"
                   /\ UNCHANGED <<applied, derived_key, oracleVars>>
              ELSE IF derived_key.obj = "None"
              THEN /\ raised' = "AttributeError" /\ pc' = "raised"
                   /\ UNCHANGED <<applied, derived_key, oracleVars>>
              ELSE IF ~PackOk(IndexOf(index_str))
              THEN /\ raised' = "struct.error" /\ pc' = "raised"
                   /\ UNCHANGED <<applied, derived_key, oracleVars>>
              ELSE \E isNone \in OracleAnswers(ChildSecret(derived_key, IndexOf(index_str))) :
                   /\ derived_key' = ChildKey(derived_key, IndexOf(index_str), isNone)
                   /\ applied' = Append(applied, IndexOf(index_str))
                   /\ hmacNone' = IF isNone
                                  THEN hmacNone \cup {ChildSecret(derived_key, IndexOf(index_str))}
                                  ELSE hmacNone
                   /\ hmacSome' = IF isNone THEN hmacSome
                                  ELSE hmacSome \cup {ChildSecret(derived_key, IndexOf(index_str))}
                   /\ UNCHANGED <<raised, pc>>
    /\ UNCHANGED <<derivation_path, path_arg, returned>>
    /\ UNCHANGED <<masterVars, batchVars, wifVars, cliVars, importVars>>

\* line 48
XprvReturn ==
    /\ pc = "xprv_loop"
    /\ todo = <<>>
    /\ IF derived_key.obj = "None"
       THEN /\ raised' = "AttributeError" /\ pc' = "raised"
            /\ UNCHANGED returned
       ELSE /\ returned' = ExtendedKey(derived_key) /\ pc' = "returned"
            /\ UNCHANGED raised
    /\ UNCHANGED <<derivation_path, path_arg, todo, visited, applied, derived_key>>
    /\ UNCHANGED <<masterVars, batchVars, oracleVars, wifVars, cliVars, importVars>>

NextPath == XprvStart \/ XprvStep \/ XprvReturn
SpecPath == InitPath /\ [][NextPath]_vars

(***************************************************************************)
(* Claims about derive_xprv.                                               *)
(***************************************************************************)
\* C1: every element of the path that ends in an apostrophe or an "h" is
\* derived with index | 0x80000000 (top bit set, below 2^32), every other
\* element with its index unchanged (top bit clear), and a returned key has
\* had ChildKey applied once per element, in order.
C1_HardenedIffMarked ==
    /\ Len(applied) <= Len(visited)
    /\ \A k \in 1..Len(applied) :
          IF MarkedHardened(visited[k])
          THEN /\ applied[k] = BigOrHarden(PyIntVal(IndexText(visited[k])))
               /\ BigAndHarden(applied[k])
               /\ PackOk(applied[k])
          ELSE /\ applied[k] = PyIntVal(visited[k])
               /\ ~BigAndHarden(applied[k])
    /\ pc = "returned" =>
          /\ visited = PySplit(derivation_path, "/")
          /\ Len(applied) = Len(visited)
          /\ returned.secret.path = applied

\* the path syntax of the specification: an optional "m/", then one or more
\* elements separated by "/", each a decimal index below 2^31 with an
\* optional hardened mark
WellFormedElement(e) ==
    LET t == IndexText(e)
    IN  /\ t # <<>>
        /\ \A k \in 1..Len(t) : IsDigit(t[k])
        /\ BigLess(ParseDigits(t, <<0, 0>>), BIP32_HARDEN)
WellFormedPath(p) ==
    LET body == IF PyStartsWith(p, <<"m", "/">>) THEN Drop(p, 2) ELSE p
        es == PySplit(body, "/")
    IN  \A k \in 1..Len(es) : WellFormedElement(es[k])

\* C6: a path that is not well formed is rejected and no key is returned
\* for it.
C6_MalformedPathRejected ==
    /\ pc = "returned" => WellFormedPath(path_arg)
    /\ (pc \in {"returned", "raised"} /\ ~WellFormedPath(path_arg)) => pc = "raised"

(***************************************************************************)
(* Byte strings.                                                           *)
(***************************************************************************)
Fill(n, b) == [k \in 1..n |-> b]
\* a < b for two byte strings of one length read as big-endian integers
BytesLess(a, b) ==
    \E k \in 1..Len(a) : a[k] < b[k] /\ \A j \in 1..(k - 1) : a[j] = b[j]
IsZero(a) == \A k \in 1..Len(a) : a[k] = 0

\* the order n of secp256k1, big-endian
CURVE_ORDER ==
    Fill(15, 255) \o <<254>> \o
    <<186, 174, 220, 230, 175, 72, 160, 59, 191, 210, 94, 140, 208, 54, 65, 65>>
\* 0 < k < n
ValidPrivateKey(k) == ~IsZero(k) /\ BytesLess(k, CURVE_ORDER)

(***************************************************************************)
(* derive_keys.py: derive_master_key(seed)                                 *)
(*                                                                         *)
(* HMAC-SHA512 is not computed: the digest of line 19 is any of a set of   *)
(* sampled digests, among them the ones whose left half is 0, n - 1, n and *)
(* 2^256 - 1.                                                              *)
(***************************************************************************)
SeedSamples == { Fill(64, b) : b \in {0, 1, 127, 255} }
LeftSamples ==
    { Fill(32, 0), Fill(31, 0) \o <<1>>, Fill(32, 255), CURVE_ORDER,
      Front(CURVE_ORDER) \o <<64>>, Fill(32, 90) }
RightSamples == { Fill(32, b) : b \in {0, 7, 200} }
DigestSamples == { l \o r : l \in LeftSamples, r \in RightSamples }

InitMaster ==
    /\ pc = "master_start"
    /\ raised = ""
    /\ derived_key = None
    /\ seed \in SeedSamples
    /\ hmac_sha512 = <<>>
    /\ master = <<>>
    /\ PathIdle /\ BatchIdle /\ OracleIdle /\ WifIdle /\ CliIdle /\ ImportIdle

\* line 19
MasterHmac ==
    /\ pc = "master_start"
    /\ hmac_sha512' \in DigestSamples
    /\ pc' = "master_split"
    /\ UNCHANGED <<raised, derived_key, seed, master>>
    /\ UNCHANGED <<pathVars, batchVars, oracleVars, wifVars, cliVars, importVars>>

\* lines 20-22
MasterSplit(digest) ==
    LET master_private_key == Take(digest, 32)
        master_chain_code == Drop(digest, 32)
    IN  <<master_private_key, master_chain_code>>
MasterReturn ==
    /\ pc = "master_split"
    /\ master' = MasterSplit(hmac_sha512)
    /\ pc' = "returned"
    /\ UNCHANGED <<raised, derived_key, seed, hmac_sha512>>
    /\ UNCHANGED <<pathVars, batchVars, oracleVars, wifVars, cliVars, importVars>>

NextMaster == MasterHmac \/ MasterReturn
SpecMaster == InitMaster /\ [][NextMaster]_vars

\* C8: derive_master_key returns (I[0:32], I[32:64]) and fails with
\* InvalidMasterKey, returning nothing, when I[0:32] is zero or is at least
\* the curve order.
C8_MasterKeyValidated ==
    /\ pc = "returned" =>
          /\ master = <<Take(hmac_sha512, 32), Drop(hmac_sha512, 32)>>
          /\ ValidPrivateKey(master[1])
    /\ (pc \in {"returned", "raised"} /\ ~ValidPrivateKey(Take(hmac_sha512, 32))) =>
          (pc = "raised" /\ raised = "InvalidMasterKey")

(***************************************************************************)
(* Base58, hex and the double SHA-256 checksum.                            *)
(***************************************************************************)
B58Alphabet ==
    <<"1", "2", "3", "4", "5", "6", "7", "8", "9",
      "A", "B", "C", "D", "E", "F", "G", "H", "J", "K", "L", "M", "N", "P", "Q",
      "R", "S", "T", "U", "V", "W", "X", "Y", "Z",
      "a", "b", "c", "d", "e", "f", "g", "h", "i", "j", "k", "m", "n", "o", "p",
      "q", "r", "s", "t", "u", "v", "w", "x", "y", "z">>
B58Index(c) == (CHOOSE d \in 1..58 : B58Alphabet[d] = c) - 1

\* bs.lstrip(b'\0') and cs.lstrip("1")
LStrip(s, x) ==
    LET keep == {k \in 1..Len(s) : s[k] # x}
    IN  IF keep = {} THEN <<>>
        ELSE SubSeq(s, CHOOSE k \in keep : \A j \in keep : k <= j, Len(s))

Reverse(s) == [k \in 1..Len(s) |-> s[Len(s) - k + 1]]

\* The loops over the bytes and digits of a long number are folds.  A fold
\* over a sequence is evaluated as the fold over its first half followed by
\* the fold over its second half, the first half being evaluated before the
\* second starts: this keeps the evaluation shallow.

\* divmod(r * 256^Len(bs) + int.from_bytes(bs, 'big'), 58): <<quotient, remainder>>
RECURSIVE DivMod58(_, _)
DivMod58(bs, r) ==
    IF bs = <<>> THEN <<<<>>, r>>
    ELSE IF Len(bs) = 1 THEN <<<<(r * 256 + bs[1]) \div 58>>, (r * 256 + bs[1]) % 58>>
    ELSE LET h == Len(bs) \div 2
             left == DivMod58(Take(bs, h), r)
             right == DivMod58(Drop(bs, h), left[2])
         IN  <<left[1] \o right[1], right[2]>>
\* k rounds of `acc, mod = divmod(acc, 58)`: <<digits, least significant first, acc>>
RECURSIVE DivRounds(_, _)
DivRounds(bs, k) ==
    IF k = 0 THEN <<<<>>, bs>>
    ELSE IF k = 1 THEN <<<<DivMod58(bs, 0)[2]>>, DivMod58(bs, 0)[1]>>
    ELSE LET h == k \div 2
             low == DivRounds(bs, h)
             high == DivRounds(low[2], k - h)
         IN  <<low[1] \o high[1], high[2]>>
\* b58encode_int(acc, default_one=False): the digits of the integer, most
\* significant first, none for 0; 58^(1 + 138 n / 100) exceeds 256^n, so
\* the rounds exhaust acc
B58EncodeInt(bs) ==
    LET digits == LStrip(Reverse(DivRounds(bs, 1 + (138 * Len(bs)) \div 100)[1]), 0)
    IN  [k \in 1..Len(digits) |-> B58Alphabet[digits[k] + 1]]
\* base58.b58encode(v): one "1" per leading zero byte, then the digits
b58encode(v) ==
    LET body == LStrip(v, 0)
    IN  Fill(Len(v) - Len(body), "1") \o B58EncodeInt(body)

\* acc * 58 + d on a little-endian byte string of fixed length: <<bytes, carry out>>
RECURSIVE MulAdd58(_, _)
MulAdd58(bs, d) ==
    IF bs = <<>> THEN <<<<>>, d>>
    ELSE IF Len(bs) = 1 THEN <<<<(bs[1] * 58 + d) % 256>>, (bs[1] * 58 + d) \div 256>>
    ELSE LET h == Len(bs) \div 2
             low == MulAdd58(Take(bs, h), d)
             high == MulAdd58(Drop(bs, h), low[2])
         IN  <<low[1] \o high[1], high[2]>>
\* b58decode_int: `acc = acc * 58 + digit` for each digit, acc little-endian
RECURSIVE MulRounds(_, _)
MulRounds(cs, acc) ==
    IF cs = <<>> THEN acc
    ELSE IF Len(cs) = 1 THEN MulAdd58(acc, B58Index(cs[1]))[1]
    ELSE LET h == Len(cs) \div 2
             first == MulRounds(Take(cs, h), acc)
         IN  IF Len(first) = Len(acc) THEN MulRounds(Drop(cs, h), first) ELSE first
\* Len(cs) bytes hold the integer of Len(cs) digits
B58DecodeInt(cs) == LStrip(Reverse(MulRounds(cs, Fill(Len(cs), 0))), 0)
\* base58.b58decode(s): one zero byte per leading "1", then the integer's bytes
b58decode(cs) ==
    LET body == LStrip(cs, "1")
    IN  Fill(Len(cs) - Len(body), 0) \o B58DecodeInt(body)

HexDigits == <<"0", "1", "2", "3", "4", "5", "6", "7", "8", "9", "a", "b", "c", "d", "e", "f">>
HexVal(c) == (CHOOSE d \in 1..16 : HexDigits[d] = c) - 1
\* bytes.hex()
PyHex(bs) ==
    [k \in 1..(2 * Len(bs)) |->
        IF k % 2 = 1 THEN HexDigits[(bs[(k + 1) \div 2] \div 16) + 1]
        ELSE HexDigits[(bs[k \div 2] % 16) + 1]]
\* bytes.fromhex(text)
PyFromHex(cs) ==
    [k \in 1..(Len(cs) \div 2) |-> HexVal(cs[2 * k - 1]) * 16 + HexVal(cs[2 * k])]

\* hashlib.sha256(hashlib.sha256(data).digest()).digest()[:4].  SHA-256 is
\* not computed: a position-dependent fold of the bytes stands for it.
RECURSIVE ByteFold(_, _, _)
ByteFold(bs, mult, h) ==
    IF bs = <<>> THEN h
    ELSE IF Len(bs) = 1 THEN (h * mult + bs[1] + 1) % 65521
    ELSE LET first == ByteFold(Take(bs, Len(bs) \div 2), mult, h)
         IN  IF first >= 0 THEN ByteFold(Drop(bs, Len(bs) \div 2), mult, first) ELSE first
DoubleSha256Prefix(data) ==
    LET a == ByteFold(data, 31, 7)
        b == ByteFold(data, 131, a)
    IN  <<a \div 256, a % 256, b \div 256, b % 256>>

\* bip32utils Base58.check_encode(raw)
check_encode(raw) == b58encode(raw \o DoubleSha256Prefix(raw))

\* big-endian four bytes of an index held as <<hi, lo>>
Be32(idx) == <<idx[1] \div 256, idx[1] % 256, idx[2] \div 256, idx[2] % 256>>
RECURSIVE Be32All(_)
Be32All(path) == IF path = <<>> THEN <<>> ELSE Be32(Head(path)) \o Be32All(Tail(path))
\* key.PrivateKey() / key.k.to_string(): the 32 bytes of the key.  The bytes
\* stand for (IL + k_parent) mod n: they spell out the mnemonic and the
\* indices derived, so different derivations have different bytes.
PrivateKey(key) ==
    LET head == <<key.secret.seed.mnemonic, Len(key.secret.path)>> \o Be32All(key.secret.path)
    IN  head \o Fill(32 - Len(head), 0)
\* key.PublicKey().hex() and key.Address(): determined by the private key
\* and, for the address, by the key's testnet flag
PublicKeyHex(key) == [compressed_point_of |-> key.secret]
Address(key) == [version |-> IF key.testnet THEN 111 ELSE 0, hash160 |-> key.secret]
\* the version byte WalletImportFormat picks
WifVersion(key) == IF ~key.testnet THEN 128 ELSE 239
\* key.WalletImportFormat()
WalletImportFormat(key) == check_encode(<<WifVersion(key)>> \o PrivateKey(key) \o <<1>>)

(***************************************************************************)
(* The three batch derivers:                                               *)
(*   import_keys.py        derive_individual_keys(mnemonic_phrase, n)      *)
(*   fix_keys.py           derive_testnet_keys(mnemonic_phrase, n)         *)
(*   create_descriptors.py derive_keys_with_descriptors(mnemonic_phrase, n)*)
(* They share the outer loop over i and the inner loop over the indices;   *)
(* each has its own loop body.                                             *)
(***************************************************************************)
Scripts == {"import_keys", "fix_keys", "create_descriptors"}
MnemonicSamples == {FixtureMnemonic, FixtureMnemonic + 1}

\* the literal text pieces of the scripts
BasePathText == <<"8", "4", "'", "/", "1", "'", "/", "0", "'", "/", "0">>
LabelPrefix == <<"s", "p", "e", "c", "t", "e", "r", "_", "k", "e", "y", "_">>
WpkhOpen == <<"w", "p", "k", "h", "(">>

\* master_key = BIP32Key.fromEntropy(seed, public=False); master_key.network = "testnet"
MasterKeyOf(m) == SetNetwork(fromEntropy(mnemonic_to_seed(m)), "testnet")

\* import_keys.py lines 27-30: only the apostrophe marks a hardened element
QuoteIndexOf(index_str) ==
    IF PyEndsWith(index_str, <<"'">>)
    THEN BigAdd(PyIntVal(PyDropLast(index_str)), BIP32_HARDEN)
    ELSE PyIntVal(index_str)
\* the indices the inner loop of a script applies for key number n
InnerIndices(sc, n) ==
    IF sc = "import_keys"
    THEN LET es == PySplit(BasePathText, "/")
         IN  [k \in 1..Len(es) |-> QuoteIndexOf(es[k])]
    ELSE <<BigAdd(BigOfNat(84), BIP32_HARDEN), BigAdd(BigOfNat(1), BIP32_HARDEN),
           BigAdd(BigOfNat(0), BIP32_HARDEN), BigOfNat(0), BigOfNat(n)>>

\* variant: every leaf is child 0
LeafIndex_Zero(n) == BigOfNat(0)
\* import_keys.py line 34: the index of final_key = derived_key.ChildKey(i)
LeafIndex(n) == BigOfNat(n)

\* variant: the compression flag is left out of the payload
ManualTestnetWif_NoFlag(key_bytes) ==
    LET extended_key == <<239>> \o key_bytes
        checksum == DoubleSha256Prefix(extended_key)
    IN  b58encode(extended_key \o checksum)
\* fix_keys.py lines 36-38: the hand-made testnet WIF
ManualTestnetWif(key_bytes) ==
    LET extended_key == <<239>> \o key_bytes \o <<1>>
        checksum == DoubleSha256Prefix(extended_key)
    IN  b58encode(extended_key \o checksum)

\* import_keys.py lines 36-41
IndividualKeyRecord(final_key, n) ==
    [path |-> <<"m", "/">> \o BasePathText \o <<"/">> \o PyStr(n),
     privkey_wif |-> WalletImportFormat(final_key),
     pubkey |-> PublicKeyHex(final_key),
     address |-> Address(final_key)]
\* variant: the record of key n carries the path of key n + 1
TestnetKeyRecord_NextPath(key, n) ==
    LET key_bytes == PyFromHex(PyHex(PrivateKey(key)))
    IN  [path |-> <<"m", "/">> \o BasePathText \o <<"/">> \o PyStr(n + 1),
         privkey_wif |-> ManualTestnetWif(key_bytes),
         privkey_hex |-> PyHex(key_bytes),
         pubkey |-> PublicKeyHex(key)]
\* fix_keys.py lines 32-47
TestnetKeyRecord(key, n) ==
    LET key_bytes == PyFromHex(PyHex(PrivateKey(key)))
    IN  [path |-> <<"m", "/">> \o BasePathText \o <<"/">> \o PyStr(n),
         privkey_wif |-> ManualTestnetWif(key_bytes),
         privkey_hex |-> PyHex(key_bytes),
         pubkey |-> PublicKeyHex(key)]
\* create_descriptors.py lines 29-38
DescriptorRecord(key, n) ==
    [desc |-> WpkhOpen \o WalletImportFormat(key) \o <<")">>,
     timestamp |-> "now",
     label |-> LabelPrefix \o PyStr(n),
     active |-> TRUE]

\* the oracle remembers what a derivation yielded
OracleRecord(secret, isNone) ==
    /\ hmacNone' = IF isNone THEN hmacNone \cup {secret} ELSE hmacNone
    /\ hmacSome' = IF isNone THEN hmacSome ELSE hmacSome \cup {secret}

InitBatch ==
    /\ pc = "batch_start"
    /\ raised = ""
    /\ derived_key = None
    /\ script \in Scripts
    /\ mnemonic_phrase \in MnemonicSamples
    /\ num_keys \in 0..MaxKeys
    /\ i = 0 /\ rest = <<>> /\ keys = <<>> /\ finals = <<>>
    /\ PathIdle /\ MasterIdle /\ OracleIdle /\ WifIdle /\ CliIdle /\ ImportIdle

\* seed, master key and the empty result list
BatchStart ==
    /\ pc = "batch_start"
    /\ keys' = <<>>
    /\ i' = 0
    /\ pc' = "batch_for"
    /\ UNCHANGED <<raised, derived_key, script, mnemonic_phrase, num_keys, rest, finals>>
    /\ UNCHANGED <<pathVars, masterVars, oracleVars, wifVars, cliVars, importVars>>

\* for i in range(num_keys): derived_key = master_key, or the return
BatchFor ==
    /\ pc = "batch_for"
    /\ IF i < num_keys
       THEN /\ derived_key' = MasterKeyOf(mnemonic_phrase)
            /\ rest' = InnerIndices(script, i)
            /\ pc' = "batch_inner"
       ELSE /\ pc' = "returned"
            /\ UNCHANGED <<derived_key, rest>>
    /\ UNCHANGED <<raised, script, mnemonic_phrase, num_keys, i, keys, finals>>
    /\ UNCHANGED <<pathVars, masterVars, oracleVars, wifVars, cliVars, importVars>>

\* derived_key = derived_key.ChildKey(index)
BatchChild ==
    /\ pc = "batch_inner"
    /\ rest # <<>>
    /\ IF derived_key.obj = "None"
       THEN /\ raised' = "AttributeError" /\ pc' = "raised"
            /\ UNCHANGED <<derived_key, rest, oracleVars>>
       ELSE \E isNone \in OracleAnswers(ChildSecret(derived_key, Head(rest))) :
            /\ derived_key' = ChildKey(derived_key, Head(rest), isNone)
            /\ OracleRecord(ChildSecret(derived_key, Head(rest)), isNone)
            /\ rest' = Tail(rest)
            /\ UNCHANGED <<raised, pc>>
    /\ UNCHANGED <<script, mnemonic_phrase, num_keys, i, keys, finals>>
    /\ UNCHANGED <<pathVars, masterVars, wifVars, cliVars, importVars>>

\* import_keys.py lines 34-41: the leaf derivation and the record
ImportKeysAppend ==
    /\ pc = "batch_inner" /\ rest = <<>> /\ script = "import_keys"
    /\ IF derived_key.obj = "None"
       THEN /\ raised' = "AttributeError" /\ pc' = "raised"
            /\ UNCHANGED <<i, keys, finals, oracleVars>>
       ELSE \E isNone \in OracleAnswers(ChildSecret(derived_key, LeafIndex(i))) :
            LET final_key == ChildKey(derived_key, LeafIndex(i), isNone)
            IN  /\ OracleRecord(ChildSecret(derived_key, LeafIndex(i)), isNone)
                /\ IF final_key.obj = "None"
                   THEN /\ raised' = "AttributeError" /\ pc' = "raised"
                        /\ UNCHANGED <<i, keys, finals>>
                   ELSE /\ keys' = Append(keys, IndividualKeyRecord(final_key, i))
                        /\ finals' = Append(finals, final_key)
                        /\ i' = i + 1
                        /\ pc' = "batch_for"
                        /\ UNCHANGED raised
    /\ UNCHANGED <<derived_key, script, mnemonic_phrase, num_keys, rest>>
    /\ UNCHANGED <<pathVars, masterVars, wifVars, cliVars, importVars>>

\* fix_keys.py lines 32-47
FixKeysAppend ==
    /\ pc = "batch_inner" /\ rest = <<>> /\ script = "fix_keys"
    /\ IF derived_key.obj = "None"
       THEN /\ raised' = "AttributeError" /\ pc' = "raised"
            /\ UNCHANGED <<i, keys, finals>>
       ELSE /\ keys' = Append(keys, TestnetKeyRecord(derived_key, i))
            /\ finals' = Append(finals, derived_key)
            /\ i' = i + 1
            /\ pc' = "batch_for"
            /\ UNCHANGED raised
    /\ UNCHANGED <<derived_key, script, mnemonic_phrase, num_keys, rest>>
    /\ UNCHANGED <<pathVars, masterVars, oracleVars, wifVars, cliVars, importVars>>

\* create_descriptors.py lines 29-39
DescriptorsAppend ==
    /\ pc = "batch_inner" /\ rest = <<>> /\ script = "create_descriptors"
    /\ IF derived_key.obj = "None"
       THEN /\ raised' = "AttributeError" /\ pc' = "raised"
            /\ UNCHANGED <<i, keys, finals>>
       ELSE /\ keys' = Append(keys, DescriptorRecord(derived_key, i))
            /\ finals' = Append(finals, derived_key)
            /\ i' = i + 1
            /\ pc' = "batch_for"
            /\ UNCHANGED raised
    /\ UNCHANGED <<derived_key, script, mnemonic_phrase, num_keys, rest>>
    /\ UNCHANGED <<pathVars, masterVars, oracleVars, wifVars, cliVars, importVars>>

NextBatch ==
    BatchStart \/ BatchFor \/ BatchChild \/ ImportKeysAppend \/ FixKeysAppend \/ DescriptorsAppend
SpecBatch == InitBatch /\ [][NextBatch]_vars

(***************************************************************************)
(* Claims about the batch derivers.                                        *)
(***************************************************************************)
\* the WIF of the specification: version || key || 0x01, checksummed, Base58
SpecWif(version, privateKey) ==
    LET payload == <<version>> \o privateKey \o <<1>>
    IN  b58encode(payload \o DoubleSha256Prefix(payload))
\* the WIF string a record of the running script carries
EmittedWif(rec) ==
    IF script = "create_descriptors"
    THEN SubSeq(rec.desc, Len(WpkhOpen) + 1, Len(rec.desc) - 1)
    ELSE rec.privkey_wif
\* the indices of m/84'/1'/0'/0/n
LeafPath(n) ==
    <<BigOrHarden(BigOfNat(84)), BigOrHarden(BigOfNat(1)), BigOrHarden(BigOfNat(0)),
      BigOfNat(0), BigOfNat(n)>>

\* C2: every WIF a deriver emits is the testnet (0xEF) WIF of the key
\* derived at its index, so the three scripts agree on it.
C2_TestnetWifEverywhere ==
    \A k \in 1..Len(keys) :
        /\ b58decode(EmittedWif(keys[k]))[1] = 239
        /\ EmittedWif(keys[k]) = SpecWif(239, PrivateKey(finals[k]))

\* C4: a batch that returns holds num_keys records in index order; record i
\* is built from the non-hardened child i of the one parent m/84'/1'/0'/0,
\* so the child indices increase strictly, the parent fingerprints are equal
\* and the addresses differ pairwise.
C4_BatchRecords ==
    pc = "returned" =>
        /\ Len(keys) = num_keys /\ Len(finals) = num_keys
        /\ \A k \in 1..Len(finals) :
              /\ finals[k].index = BigOfNat(k - 1)
              /\ ~BigAndHarden(finals[k].index)
              /\ finals[k].secret.path = LeafPath(k - 1)
              /\ finals[k].parent_fpr = finals[1].parent_fpr
              /\ finals[k].parent_fpr =
                    [hash160 |-> [seed |-> mnemonic_to_seed(mnemonic_phrase),
                                  path |-> Front(LeafPath(k - 1))]]
        /\ \A k, l \in 1..Len(finals) :
              k < l =>
                 /\ BigLess(finals[k].index, finals[l].index)
                 /\ Address(finals[k]) # Address(finals[l])
                 /\ keys[k] # keys[l]
                 /\ script = "import_keys" => keys[k].address # keys[l].address
C4_Witness ==
    /\ pc = "returned" /\ script = "import_keys"
    /\ num_keys = 10 /\ Len(keys) = 10

PathTextIndices(text) ==
    LET es == PySplit(Drop(text, 2), "/")
    IN  [k \in 1..Len(es) |->
            IF MarkedHardened(es[k])
            THEN BigOrHarden(PyIntVal(PyDropLast(es[k])))
            ELSE PyIntVal(es[k])]
HalfSamples == { Fill(16, b) : b \in {0, 1, 57, 58, 127, 128, 200, 254, 255} }
KeySamples ==
    { k \in { a \o b : a \in HalfSamples, b \in HalfSamples } \cup
            { Front(CURVE_ORDER) \o <<64>> } : ValidPrivateKey(k) }

InitWif ==
    /\ pc = "wif_start"
    /\ raised = ""
    /\ derived_key = None
    /\ raw_key \in KeySamples
    /\ private_key_bytes = <<>>
    /\ wif_key = <<>>
    /\ PathIdle /\ MasterIdle /\ BatchIdle /\ OracleIdle /\ CliIdle /\ ImportIdle

\* line 32: private_key_bytes = bytes.fromhex(derived_key.PrivateKey().hex())
WifBytes ==
    /\ pc = "wif_start"
    /\ private_key_bytes' = PyFromHex(PyHex(raw_key))
    /\ pc' = "wif_encode"
    /\ UNCHANGED <<raised, derived_key, raw_key, wif_key>>
    /\ UNCHANGED <<pathVars, masterVars, batchVars, oracleVars, cliVars, importVars>>

\* lines 36-38
WifEncode ==
    /\ pc = "wif_encode"
    /\ wif_key' = ManualTestnetWif(private_key_bytes)
    /\ pc' = "wif_done"
    /\ UNCHANGED <<raised, derived_key, raw_key, private_key_bytes>>
    /\ UNCHANGED <<pathVars, masterVars, batchVars, oracleVars, cliVars, importVars>>

NextWif == WifBytes \/ WifEncode
SpecWif58 == InitWif /\ [][NextWif]_vars

\* decoding a WIF: Base58, then version, key, compression flag, checksum
WifDecode(wif) ==
    LET raw == b58decode(wif)
    IN  [version |-> raw[1],
         key |-> SubSeq(raw, 2, Len(raw) - 5),
         flag |-> raw[Len(raw) - 4],
         checksum |-> SubSeq(raw, Len(raw) - 3, Len(raw)),
         payload |-> SubSeq(raw, 1, Len(raw) - 4)]

\* C3: the WIF derive_testnet_keys builds decodes to the version 0xEF, the
\* same 32-byte key, the compression flag 0x01 and a checksum that verifies.
C3_WifRoundTrip ==
    pc = "wif_done" =>
        LET d == WifDecode(wif_key)
        IN  /\ Len(b58decode(wif_key)) = 38
            /\ d.version = 239
            /\ d.key = raw_key
            /\ d.flag = 1
            /\ d.checksum = DoubleSha256Prefix(d.payload)
            /\ wif_key[1] = "c"
C3_Witness ==
    /\ pc = "wif_done"
    /\ raw_key = Fill(16, 0) \o Fill(16, 1)
    /\ Len(wif_key) = 52

(***************************************************************************)
(* import_keys.py: generate_bitcoin_cli_commands(keys)                     *)
(*                                                                         *)
(* A command line is held as its RPC method, the wallet of its -rpcwallet  *)
(* option (empty when it has none) and its arguments; the connection       *)
(* options are the same in every command.                                  *)
(***************************************************************************)
WalletName == <<"s", "p", "e", "c", "t", "e", "r", "_", "r", "e", "c", "o", "v", "e", "r", "y">>
TextFalse == <<"f", "a", "l", "s", "e">>
TextTrue == <<"t", "r", "u", "e">>
WifSamples == { ManualTestnetWif(k \o k) : k \in {Fill(16, 1), Fill(16, 128), Fill(16, 254)} }
KeyListSamples(ws) == UNION { [1..n -> [privkey_wif : ws]] : n \in 0..MaxList }

\* line 50
CreateWalletCommand ==
    [method |-> "createwallet", rpcwallet |-> <<>>,
     args |-> <<WalletName, TextFalse, TextFalse, <<>>, TextFalse, TextTrue>>]
\* variant: labels count from 1
ImportCommand_NextLabel(key, n) ==
    [method |-> "importprivkey", rpcwallet |-> WalletName,
     args |-> <<key.privkey_wif, LabelPrefix \o PyStr(n + 1), TextFalse>>]
\* lines 54-55, for the key at position n of enumerate(keys)
ImportCommand(key, n) ==
    LET label == LabelPrefix \o PyStr(n)
    IN  [method |-> "importprivkey", rpcwallet |-> WalletName,
         args |-> <<key.privkey_wif, label, TextFalse>>]
\* line 59
RescanCommand ==
    [method |-> "rescanblockchain", rpcwallet |-> WalletName, args |-> <<>>]

InitCli ==
    /\ pc = "cli_start"
    /\ raised = ""
    /\ derived_key = None
    /\ cli_keys \in KeyListSamples(WifSamples)
    /\ commands = <<>>
    /\ i = 0
    /\ script = "" /\ mnemonic_phrase = 0 /\ num_keys = 0 /\ rest = <<>>
    /\ keys = <<>> /\ finals = <<>>
    /\ PathIdle /\ MasterIdle /\ OracleIdle /\ WifIdle /\ ImportIdle

\* lines 47-50
CliCreateWallet ==
    /\ pc = "cli_start"
    /\ commands' = Append(<<>>, CreateWalletCommand)
    /\ i' = 0
    /\ pc' = "cli_for"
    /\ UNCHANGED <<raised, derived_key, cli_keys>>
    /\ UNCHANGED <<script, mnemonic_phrase, num_keys, rest, keys, finals>>
    /\ UNCHANGED <<pathVars, masterVars, oracleVars, wifVars, importVars>>

\* lines 53-56: one iteration
CliImportKey ==
    /\ pc = "cli_for"
    /\ i < Len(cli_keys)
    /\ commands' = Append(commands, ImportCommand(cli_keys[i + 1], i))
    /\ i' = i + 1
    /\ UNCHANGED <<pc, raised, derived_key, cli_keys>>
    /\ UNCHANGED <<script, mnemonic_phrase, num_keys, rest, keys, finals>>
    /\ UNCHANGED <<pathVars, masterVars, oracleVars, wifVars, importVars>>

\* lines 59-61
CliRescan ==
    /\ pc = "cli_for"
    /\ i = Len(cli_keys)
    /\ commands' = Append(commands, RescanCommand)
    /\ pc' = "returned"
    /\ UNCHANGED <<raised, derived_key, cli_keys, i>>
    /\ UNCHANGED <<script, mnemonic_phrase, num_keys, rest, keys, finals>>
    /\ UNCHANGED <<pathVars, masterVars, oracleVars, wifVars, importVars>>

NextCli == CliCreateWallet \/ CliImportKey \/ CliRescan
SpecCli == InitCli /\ [][NextCli]_vars

\* C9: the list returned for N keys has N + 2 commands: createwallet, then
\* one importprivkey per key in input order, carrying that key's WIF and the
\* label specter_key_i against the created wallet, then rescanblockchain;
\* while the list is built no import precedes the creation or follows the
\* rescan.
C9_CommandOrder ==
    /\ \A k \in 1..Len(commands) :
          /\ commands[k].method = "createwallet" <=> k = 1
          /\ commands[k].method = "rescanblockchain" =>
                (k = Len(cli_keys) + 2 /\ k = Len(commands))
          /\ commands[k].method = "importprivkey" =>
                /\ k >= 2 /\ k <= Len(cli_keys) + 1
                /\ commands[k].args[1] = cli_keys[k - 1].privkey_wif
                /\ commands[k].args[2] = LabelPrefix \o PyStr(k - 2)
                /\ commands[k].rpcwallet = commands[1].args[1]
    /\ pc = "returned" =>
          /\ Len(commands) = Len(cli_keys) + 2
          /\ commands[1].method = "createwallet"
          /\ commands[Len(commands)].method = "rescanblockchain"
          /\ \A k \in 2..(Len(commands) - 1) : commands[k].method = "importprivkey"
C9_Witness ==
    /\ pc = "returned"
    /\ Len(cli_keys) = 3
    /\ cli_keys[1].privkey_wif # cli_keys[2].privkey_wif
    /\ Len(commands) = 5

(***************************************************************************)
(* create_valid_descriptors.py: get_descriptor_with_checksum and           *)
(* create_import_descriptors.  bitcoin-cli is the collaborator: each       *)
(* subprocess.run either raises OSError or gives a result with a return    *)
(* code and a standard output, which is a JSON object with a checksum or   *)
(* not JSON at all.                                                        *)
(***************************************************************************)
ChecksumSamples == {<<"8", "f", "h", "d", "9", "s", "2", "k">>, <<"q", "q", "0", "m", "z", "z", "7", "x">>}
RunSamples ==
    { [returncode |-> 0, stdout |-> [json |-> TRUE, checksum |-> c]] : c \in ChecksumSamples }
    \cup { [returncode |-> 0, stdout |-> [json |-> FALSE]],
           [returncode |-> 1, stdout |-> [json |-> FALSE]] }
RunRaised == [returncode |-> -1, stdout |-> [json |-> FALSE]]   \* no result object

\* variant: the checksum is not appended
get_descriptor_with_checksum_NoChecksum(wif, label, result) ==
    IF result.returncode = 0
    THEN [desc |-> WpkhOpen \o wif \o <<")">>,
          timestamp |-> "now",
          label |-> label,
          active |-> FALSE,
          watchonly |-> FALSE]
    ELSE None
\* lines 21-32, given the result of line 20, when json.loads succeeds
get_descriptor_with_checksum(wif, label, result) ==
    IF result.returncode = 0
    THEN [desc |-> WpkhOpen \o wif \o <<")", "#">> \o result.stdout.checksum,
          timestamp |-> "now",
          label |-> label,
          active |-> FALSE,
          watchonly |-> FALSE]
    ELSE None

InitImport ==
    /\ pc = "imp_start"
    /\ raised = ""
    /\ derived_key = None
    /\ file_keys \in KeyListSamples(WifSamples)
    /\ descriptors = <<>> /\ printed = <<>> /\ calls = <<>>
    /\ i = 0
    /\ script = "" /\ mnemonic_phrase = 0 /\ num_keys = 0 /\ rest = <<>>
    /\ keys = <<>> /\ finals = <<>>
    /\ PathIdle /\ MasterIdle /\ OracleIdle /\ WifIdle /\ CliIdle

\* lines 37-40
ImportLoad ==
    /\ pc = "imp_start"
    /\ descriptors' = <<>>
    /\ i' = 0
    /\ pc' = "imp_for"
    /\ UNCHANGED <<raised, derived_key, file_keys, printed, calls>>
    /\ UNCHANGED <<script, mnemonic_phrase, num_keys, rest, keys, finals>>
    /\ UNCHANGED <<pathVars, masterVars, oracleVars, wifVars, cliVars>>

\* lines 42-45: one iteration whose call returns (a descriptor or None)
ImportKey ==
    /\ pc = "imp_for"
    /\ i < Len(file_keys)
    /\ \E result \in RunSamples :
          /\ result.returncode = 0 => result.stdout.json
          /\ LET wif == file_keys[i + 1].privkey_wif
                 desc == get_descriptor_with_checksum(wif, LabelPrefix \o PyStr(i), result)
             IN  /\ descriptors' = IF desc # None THEN Append(descriptors, desc) ELSE descriptors
                 /\ printed' = IF result.returncode = 0 THEN printed ELSE Append(printed, wif)
          /\ calls' = Append(calls, result)
    /\ i' = i + 1
    /\ UNCHANGED <<pc, raised, derived_key, file_keys>>
    /\ UNCHANGED <<script, mnemonic_phrase, num_keys, rest, keys, finals>>
    /\ UNCHANGED <<pathVars, masterVars, oracleVars, wifVars, cliVars>>

\* line 20 raises OSError (bitcoin-cli cannot be started), or line 22 raises
\* JSONDecodeError: nothing catches it and the batch ends without a list
ImportRaise ==
    /\ pc = "imp_for"
    /\ i < Len(file_keys)
    /\ \/ raised' = "OSError" /\ calls' = Append(calls, RunRaised)
       \/ \E result \in RunSamples :
             /\ result.returncode = 0 /\ ~result.stdout.json
             /\ raised' = "JSONDecodeError"
             /\ calls' = Append(calls, result)
    /\ pc' = "raised"
    /\ UNCHANGED <<derived_key, file_keys, descriptors, printed, i>>
    /\ UNCHANGED <<script, mnemonic_phrase, num_keys, rest, keys, finals>>
    /\ UNCHANGED <<pathVars, masterVars, oracleVars, wifVars, cliVars>>

\* line 47
ImportReturn ==
    /\ pc = "imp_for"
    /\ i = Len(file_keys)
    /\ pc' = "returned"
    /\ UNCHANGED <<raised, derived_key, file_keys, descriptors, printed, calls, i>>
    /\ UNCHANGED <<script, mnemonic_phrase, num_keys, rest, keys, finals>>
    /\ UNCHANGED <<pathVars, masterVars, oracleVars, wifVars, cliVars>>

NextImport == ImportLoad \/ ImportKey \/ ImportRaise \/ ImportReturn
SpecImport == InitImport /\ [][NextImport]_vars

\* the input positions whose getdescriptorinfo call exited with code 0
ExitedZero == SelectSeq([n \in 1..Len(calls) |-> n], LAMBDA n : calls[n].returncode = 0)

\* C10: the returned list holds, in input order, one descriptor for exactly
\* the keys whose call exited with 0, of the form wpkh(<wif>)#<checksum>,
\* labelled specter_key_i by the key's position in the input.
C10_DescriptorSubsequence ==
    pc = "returned" =>
        /\ Len(calls) = Len(file_keys)
        /\ Len(descriptors) = Len(ExitedZero)
        /\ \A k \in 1..Len(descriptors) :
              LET n == ExitedZero[k]
              IN  /\ descriptors[k].desc =
                        WpkhOpen \o file_keys[n].privkey_wif \o <<")", "#">>
                                 \o calls[n].stdout.checksum
                  /\ descriptors[k].label = LabelPrefix \o PyStr(n - 1)
C10_Witness ==
    /\ pc = "returned"
    /\ Len(file_keys) = 3
    /\ calls[1].returncode = 1 /\ calls[2].returncode = 0 /\ calls[3].returncode = 0
    /\ calls[2].stdout.checksum # calls[3].stdout.checksum
    /\ Len(descriptors) = 2

\* C5: one key's failure neither ends the batch nor is dropped: the batch
\* never ends by an exception, and the list it returns has a result or an
\* error entry for every index 0..N-1.
C5_FailureIsolated ==
    /\ pc # "raised"
    /\ pc = "returned" =>
          \A n \in 0..(Len(file_keys) - 1) :
              \E k \in 1..Len(descriptors) :
                  descriptors[k].label = LabelPrefix \o PyStr(n)

====
